---- MODULE Spec2Model ----
(***************************************************************************)
(* A model of the data partition of the storage node (package datanode,    *)
(* src/unnamed/part_000): the repair cycle DoExtentStoreRepair, the        *)
(* maintenance operations statusUpdate / LaunchRepair / updateReplicas,    *)
(* the lifecycle (CreateDataPartition, LoadDataPartition, Stop, the        *)
(* statusUpdateScheduler goroutine), PersistMetadata (with and without    *)
(* crashes) and the published snapshot (ReloadSnapshot, SnapShot).         *)
(*                                                                         *)
(* Each group of operations has its own specification over its own group   *)
(* of variables; the variables of the other groups are parked at their     *)
(* initial values and left unchanged.                                      *)
(***************************************************************************)
EXTENDS Integers, Sequences, FiniteSets, TLC

VARIABLES
    \* ---- the repair cycle (DoExtentStoreRepair) ----
    rpc,            \* position of the goroutine running DoExtentStoreRepair
    task,           \* the DataPartitionRepairTask (mutated by the call)
    ci,             \* index of the range loop over ExtentsToBeCreated
    ri,             \* index of the range loop over ExtentsToBeRepaired
    rangeLen,       \* length of ExtentsToBeRepaired when its range loop began
    recoverIndex,   \* the local recoverIndex
    wg,             \* counter of the sync.WaitGroup
    inflight,       \* stream-repair workers dispatched and not yet finished
                    \* (each named by the index of its entry in the list)
    extents,        \* extent ids present in the extent store
    esize,          \* size of every extent of the store
    runs,           \* completed calls of DoExtentStoreRepair on this task
    rhist,          \* history: what the previous and the current call did
    \* ---- the maintenance operations ----
    now,                            \* the clock, time.Now().Unix()
    partitionStatus,                \* dp.partitionStatus
    used,                           \* dp.used
    intervalToUpdatePartitionSize,  \* time of the last usage computation
    intervalToUpdateReplicas,       \* time of the last successful refresh
    isLeader,                       \* dp.isLeader
    replicas,                       \* dp.replicas
    brokenTinyExtentCnt,            \* length of the store's broken-tiny queue
    mhist,          \* history: the last maintenance operation and what it did
    \* ---- the metadata file ----
    files,          \* the files META and .meta of the partition directory
    configPeers,    \* dp.config.Peers
    ppc,            \* position of the goroutine running PersistMetadata
    phist,          \* history: the last PersistMetadata call
    \* ---- the lifecycle and the scheduler ----
    lpc,            \* position of the caller of Create/LoadDataPartition
    lres,           \* what that call returned: "none", "ok", "err"
    lfail,          \* the step that made it fail
    attached,       \* the partition is attached to the disk manager
    extentStore,    \* dp.extentStore: "none", "open", "closed"
    raft,           \* the raft partition: "none", "started", "stopped"
    stopC,          \* dp.stopC: "nil", "open", "closed"
    sched,          \* position of the statusUpdateScheduler goroutine
    index,          \* its local index
    tickerC,        \* a firing of ticker waits in its channel
    metricTickerC,  \* a firing of metricTicker waits in its channel
    tickersStopped, \* ticker.Stop() and metricTicker.Stop() were called
    snapshot,       \* dp.snapshot
    stopPc,         \* position of the goroutine running Stop
    stopCalls,      \* calls of Stop that have returned
    panicked,       \* a goroutine has panicked
    lhist,          \* history of the scheduler
    \* ---- the published snapshot and its readers-writer lock ----
    wpc,            \* position of the goroutine running ReloadSnapshot
    wfiles,         \* its local files: the listing the store returned
    snapshotMutex,  \* dp.snapshotMutex: write-locked?, number of read locks
    snapshotHdr,    \* dp.snapshot as the slice header it is: array and length
    arrays,         \* length of every listing the store has returned
    reloads,        \* calls of ReloadSnapshot so far
    rdpc,           \* position of the goroutine running SnapShot
    rdfiles,        \* the slice header that goroutine has read so far
    reads,          \* calls of SnapShot so far
    shist           \* history: the listings published

repairVars == <<rpc, task, ci, ri, rangeLen, recoverIndex, wg, inflight,
                extents, esize, runs, rhist>>

maintVars == <<now, partitionStatus, used, intervalToUpdatePartitionSize,
               intervalToUpdateReplicas, isLeader, replicas,
               brokenTinyExtentCnt, mhist>>

maintRest == <<partitionStatus, used, intervalToUpdatePartitionSize,
               intervalToUpdateReplicas, isLeader, replicas,
               brokenTinyExtentCnt, mhist>>

metaVars == <<files, configPeers, ppc, phist>>

lifeVars == <<lpc, lres, lfail, attached, extentStore, raft, stopC, sched,
              index, tickerC, metricTickerC, tickersStopped, snapshot, stopPc,
              stopCalls, panicked, lhist>>

snapVars == <<wpc, wfiles, snapshotMutex, snapshotHdr, arrays, reloads, rdpc,
              rdfiles, reads, shist>>

vars == <<repairVars, maintVars, metaVars, lifeVars, snapVars>>

----------------------------------------------------------------------------
(* Bounds of the model *)

\* Longest ExtentsToBeCreated list of a task.
MaxCreated == 2
\* Longest ExtentsToBeRepaired list a task starts with.
MaxRepaired == 1
\* How many times DoExtentStoreRepair is run on the same task.
MaxRuns == 2
\* The package constant NumOfFilesToRecoverInParallel is defined outside
\* these sources; the model is checked for small values of it.
NumOfFilesToRecoverInParallel == 2

\* Extent ids: the reserved tiny band and the normal ones.
TinyExtentIDs == {1}
NormalExtentIDs == {2, 3}
ExtentIDs == TinyExtentIDs \cup NormalExtentIDs
\* Sizes a repair entry asks for.
Sizes == {1}

----------------------------------------------------------------------------
(* Helpers *)

SeqsUpTo(n, S) == UNION {[1..k -> S] : k \in 0..n}

Max(a, b) == IF a >= b THEN a ELSE b

\* storage.IsTinyExtent: the id lies in the reserved tiny band.
IsTinyExtent(id) == id \in TinyExtentIDs

\* store.HasExtent
HasExtent(id) == id \in extents

\* storage.ExtentInfo, as far as the repair cycle reads it.
ExtentInfo == [FileID : ExtentIDs, Size : Sizes]

\* strings.TrimSpace, on a string given as a sequence of characters.
RECURSIVE TrimLeft(_)
TrimLeft(s) == IF s # <<>> /\ Head(s) = " " THEN TrimLeft(Tail(s)) ELSE s

RECURSIVE TrimRight(_)
TrimRight(s) ==
    IF s # <<>> /\ s[Len(s)] = " " THEN TrimRight(SubSeq(s, 1, Len(s) - 1))
    ELSE s

TrimSpace(s) == TrimRight(TrimLeft(s))

\* strings.Split(s, sep) for a one-character separator: the pieces of s
\* between the separators (one piece when there is none).
RECURSIVE Split(_, _)
Split(s, sep) ==
    IF \E i \in 1..Len(s) : s[i] = sep
    THEN LET i == CHOOSE k \in 1..Len(s) :
                    s[k] = sep /\ \A j \in 1..(k - 1) : s[j] # sep
         IN <<SubSeq(s, 1, i - 1)>> \o Split(SubSeq(s, i + 1, Len(s)), sep)
    ELSE <<s>>

----------------------------------------------------------------------------
(* The maintenance state and the parts of it the other groups keep fixed *)

\* proto.Unavailable, proto.ReadOnly, proto.ReadWrite: the partition and
\* disk statuses, ordered Unavailable < ReadOnly < ReadWrite.
Unavailable == -1
ReadOnly == 1
ReadWrite == 2
Statuses == {Unavailable, ReadOnly, ReadWrite}

\* The clock when the partition is constructed: later than any interval.
StartTime == 10
\* How long the clock runs in the model.
MaxElapsed == 5

MaintEmptyHist ==
    [op |-> "none", skipped |-> FALSE, queried |-> FALSE, err |-> FALSE,
     hosts |-> <<>>, touched |-> FALSE, started |-> FALSE, kind |-> "none",
     disk |-> ReadWrite, count |-> 0]

\* newDataPartition, lines 171-186: the fields as constructed.
MaintParked ==
    /\ now = StartTime
    /\ partitionStatus = ReadWrite
    /\ used = 0
    /\ intervalToUpdatePartitionSize = 0
    /\ intervalToUpdateReplicas = 0
    /\ isLeader = FALSE
    /\ replicas = <<>>
    /\ brokenTinyExtentCnt = 0
    /\ mhist = MaintEmptyHist

\* DataPartitionMetadataFileName and TempMetadataFileName, lines 42-43.
DataPartitionMetadataFileName == "META"
TempMetadataFileName == ".meta"
FileNames == {DataPartitionMetadataFileName, TempMetadataFileName}

\* A file that does not exist.
NoFile == [exists |-> FALSE, data |-> <<>>]

\* result, time, peers: of the last call of PersistMetadata; firstTime: the
\* clock when the first successful call wrote the descriptor (0: none yet).
\* crashes: how many times the process has died.
MetaEmptyHist ==
    [result |-> "none", time |-> 0, peers |-> <<>>, firstTime |-> 0,
     crashes |-> 0]

\* The metadata group at rest: an empty partition directory.
MetaParked ==
    /\ files = [f \in FileNames |-> NoFile]
    /\ configPeers = <<>>
    /\ ppc = "idle"
    /\ phist = MetaEmptyHist

\* kinds: the kinds of repair the last two main ticks launched; op: the
\* constructor that was called; lateStoreOp: the scheduler has used the
\* extent store after Stop closed it; tickAfterStop: a main tick began
\* after a call of Stop had returned.
LifeEmptyHist ==
    [kinds |-> <<>>, op |-> "none", lateStoreOp |-> FALSE,
     tickAfterStop |-> FALSE]

\* The lifecycle group at rest: no partition has been constructed.
LifeParked ==
    /\ lpc = "start"
    /\ lres = "none"
    /\ lfail = "none"
    /\ attached = FALSE
    /\ extentStore = "none"
    /\ raft = "none"
    /\ stopC = "nil"
    /\ sched = "none"
    /\ index = 0
    /\ tickerC = FALSE
    /\ metricTickerC = FALSE
    /\ tickersStopped = FALSE
    /\ snapshot = <<>>
    /\ stopPc = "idle"
    /\ stopCalls = 0
    /\ panicked = FALSE
    /\ lhist = LifeEmptyHist

\* Longest listing the extent store returns.
MaxFiles == 2
\* How many times ReloadSnapshot is called.
MaxReloads == 3
\* How many times SnapShot is called.
MaxReads == 2

\* A slice header: the backing array (0 is the nil slice; listing k of the
\* store lives in array k) and the length.
Hdr(array, len) == [array |-> array, len |-> len]

\* published: the listing the last completed reload installed; atRLock: the
\* one that was published when the reader took its lock; failed: the last
\* call of the store returned an error.
SnapEmptyHist == [published |-> 0, atRLock |-> 0, failed |-> FALSE]

\* The snapshot group at rest: dp.snapshot is nil, the lock is free.
SnapParked ==
    /\ wpc = "idle"
    /\ wfiles = 0
    /\ snapshotMutex = [writer |-> FALSE, readers |-> 0]
    /\ snapshotHdr = Hdr(0, 0)
    /\ arrays = [k \in 0..MaxReloads |-> 0]
    /\ reloads = 0
    /\ rdpc = "idle"
    /\ rdfiles = Hdr(0, 0)
    /\ reads = 0
    /\ shist = SnapEmptyHist

\* What the repair cycle leaves alone.
othersR == <<maintVars, metaVars, lifeVars, snapVars>>
\* What the maintenance operations leave alone.
othersM == <<repairVars, metaVars, lifeVars, snapVars>>
\* What PersistMetadata leaves alone.
othersP == <<repairVars, maintVars, lifeVars, snapVars>>
\* What ReloadSnapshot and SnapShot leave alone.
othersS == <<repairVars, maintVars, metaVars, lifeVars>>

----------------------------------------------------------------------------
(* DoExtentStoreRepair *)

RepairEmptyHist ==
    [prevExtents |-> {}, prevSize |-> [e \in ExtentIDs |-> 0],
     prevFailed |-> {}, created |-> {}, failed |-> {},
     origRepaired |-> <<>>, log |-> <<>>]

\* What the first loop did with one entry of ExtentsToBeCreated: whether the
\* extent existed when the entry was reached, whether store.Create was
\* called for it, and whether that call succeeded.
LogEntry(had, called, ok) == [had |-> had, called |-> called, ok |-> ok]

\* The repair group at rest, as the other specifications keep it.
RepairParked ==
    /\ rpc = "idle"
    /\ task = [ExtentsToBeCreated |-> <<>>, ExtentsToBeRepaired |-> <<>>]
    /\ ci = 0
    /\ ri = 0
    /\ rangeLen = 0
    /\ recoverIndex = 0
    /\ wg = 0
    /\ inflight = {}
    /\ extents = TinyExtentIDs
    /\ esize = [e \in ExtentIDs |-> 0]
    /\ runs = 0
    /\ rhist = RepairEmptyHist

InitRepair ==
    /\ SnapParked
    /\ MaintParked
    /\ MetaParked
    /\ LifeParked
    /\ rpc = "idle"
    /\ task \in [ExtentsToBeCreated : SeqsUpTo(MaxCreated, ExtentInfo),
                 ExtentsToBeRepaired : SeqsUpTo(MaxRepaired, ExtentInfo)]
    /\ ci = 0
    /\ ri = 0
    /\ rangeLen = 0
    /\ recoverIndex = 0
    /\ wg = 0
    /\ inflight = {}
    \* tiny extents are pre-allocated; any subset of the normal ones exists
    /\ \E s \in SUBSET NormalExtentIDs : extents = TinyExtentIDs \cup s
    /\ esize = [e \in ExtentIDs |-> 0]
    /\ runs = 0
    /\ rhist = RepairEmptyHist

\* The call begins: the range loop over ExtentsToBeCreated starts. The
\* history keeps the store as the previous call left it.
RepairCall ==
    /\ rpc \in {"idle", "done"}
    /\ runs < MaxRuns
    /\ rpc' = "create"
    /\ ci' = 1
    /\ rhist' = [prevExtents |-> extents, prevSize |-> esize,
                 prevFailed |-> rhist.failed, created |-> {}, failed |-> {},
                 origRepaired |-> task.ExtentsToBeRepaired, log |-> <<>>]
    /\ UNCHANGED <<task, ri, rangeLen, recoverIndex, wg, inflight, extents,
                   esize, runs>>
    /\ UNCHANGED othersR

\* An append that puts the new entry in front of the list.
AppendRepairedFront(info) ==
    [task EXCEPT !.ExtentsToBeRepaired =
        <<[FileID |-> info.FileID, Size |-> info.Size]>> \o @]

\* lines 541-542 and 549-550: a new ExtentInfo with the entry's id and size
\* is appended to ExtentsToBeRepaired.
AppendRepaired(info) ==
    [task EXCEPT !.ExtentsToBeRepaired =
        Append(@, [FileID |-> info.FileID, Size |-> info.Size])]

\* line 537: a tiny extent is skipped.
CreateSkipTiny ==
    /\ rpc = "create"
    /\ ci <= Len(task.ExtentsToBeCreated)
    /\ IsTinyExtent(task.ExtentsToBeCreated[ci].FileID)
    /\ ci' = ci + 1
    /\ rhist' = [rhist EXCEPT !.log =
            Append(@, LogEntry(HasExtent(task.ExtentsToBeCreated[ci].FileID),
                               FALSE, FALSE))]
    /\ UNCHANGED <<rpc, task, ri, rangeLen, recoverIndex, wg, inflight,
                   extents, esize, runs>>
    /\ UNCHANGED othersR

\* line 540: the extent exists already; it is appended to the repair list.
CreateAppendExisting ==
    /\ rpc = "create"
    /\ ci <= Len(task.ExtentsToBeCreated)
    /\ LET info == task.ExtentsToBeCreated[ci] IN
        /\ ~IsTinyExtent(info.FileID)
        /\ HasExtent(info.FileID)
        /\ task' = AppendRepaired(info)
    /\ ci' = ci + 1
    /\ rhist' = [rhist EXCEPT !.log = Append(@, LogEntry(TRUE, FALSE, FALSE))]
    /\ UNCHANGED <<rpc, ri, rangeLen, recoverIndex, wg, inflight, extents,
                   esize, runs>>
    /\ UNCHANGED othersR

\* A create that forgets the HasExtent test of line 540.
CreateGuardNoHasExtent(info) == ~IsTinyExtent(info.FileID)

\* The guard under which line 545 calls store.Create.
CreateGuard(info) == ~IsTinyExtent(info.FileID) /\ ~HasExtent(info.FileID)

\* line 545, store.Create succeeds: the extent exists, empty, and is appended.
CreateOk ==
    /\ rpc = "create"
    /\ ci <= Len(task.ExtentsToBeCreated)
    /\ LET info == task.ExtentsToBeCreated[ci] IN
        /\ CreateGuard(info)
        /\ extents' = extents \cup {info.FileID}
        /\ esize' = [esize EXCEPT ![info.FileID] = 0]
        /\ task' = AppendRepaired(info)
        /\ rhist' = [rhist EXCEPT
                        !.created = @ \cup {info.FileID},
                        !.log = Append(@, LogEntry(HasExtent(info.FileID),
                                                   TRUE, TRUE))]
    /\ ci' = ci + 1
    /\ UNCHANGED <<rpc, ri, rangeLen, recoverIndex, wg, inflight, runs>>
    /\ UNCHANGED othersR

\* line 546: store.Create returns an error, which is swallowed.
CreateFail ==
    /\ rpc = "create"
    /\ ci <= Len(task.ExtentsToBeCreated)
    /\ LET info == task.ExtentsToBeCreated[ci] IN
        /\ CreateGuard(info)
        /\ rhist' = [rhist EXCEPT
                        !.failed = @ \cup {info.FileID},
                        !.log = Append(@, LogEntry(HasExtent(info.FileID),
                                                   TRUE, FALSE))]
    /\ ci' = ci + 1
    /\ UNCHANGED <<rpc, task, ri, rangeLen, recoverIndex, wg, inflight,
                   extents, esize, runs>>
    /\ UNCHANGED othersR

\* lines 552-557: the first loop is over; a new WaitGroup, recoverIndex = 0,
\* and the range expression of the second loop is evaluated.
CreateLoopEnd ==
    /\ rpc = "create"
    /\ ci > Len(task.ExtentsToBeCreated)
    /\ rpc' = "dispatch"
    /\ ri' = 1
    /\ rangeLen' = Len(task.ExtentsToBeRepaired)
    /\ recoverIndex' = 0
    /\ wg' = 0
    /\ UNCHANGED <<task, ci, inflight, extents, esize, runs, rhist>>
    /\ UNCHANGED othersR

\* line 559: the extent does not exist; the entry is skipped.
DispatchSkipMissing ==
    /\ rpc = "dispatch"
    /\ ri <= rangeLen
    /\ ~HasExtent(task.ExtentsToBeRepaired[ri].FileID)
    /\ ri' = ri + 1
    /\ UNCHANGED <<rpc, task, ci, rangeLen, recoverIndex, wg, inflight,
                   extents, esize, runs, rhist>>
    /\ UNCHANGED othersR

\* A barrier that comes one dispatch late.
AtBarrierLate(n) == n % (NumOfFilesToRecoverInParallel + 1) = 0

\* line 568: after this dispatch the loop waits for the workers to drain.
AtBarrier(n) == n % NumOfFilesToRecoverInParallel = 0

\* lines 562-570: wg.Add(1), the worker is started, recoverIndex++, and the
\* loop goes to wg.Wait() after every NumOfFilesToRecoverInParallel-th one.
Dispatch ==
    /\ rpc = "dispatch"
    /\ ri <= rangeLen
    /\ HasExtent(task.ExtentsToBeRepaired[ri].FileID)
    /\ wg' = wg + 1
    /\ inflight' = inflight \cup {ri}
    /\ recoverIndex' = recoverIndex + 1
    /\ rpc' = IF AtBarrier(recoverIndex + 1) THEN "wait" ELSE "dispatch"
    /\ ri' = ri + 1
    /\ UNCHANGED <<task, ci, rangeLen, extents, esize, runs, rhist>>
    /\ UNCHANGED othersR

\* A Wait that does not block.
WaitNoBlock == TRUE

\* sync.WaitGroup.Wait returns when the counter is zero.
WaitDone == wg = 0

\* line 569: wg.Wait() inside the loop returns.
BarrierWait ==
    /\ rpc = "wait"
    /\ WaitDone
    /\ rpc' = "dispatch"
    /\ UNCHANGED <<task, ci, ri, rangeLen, recoverIndex, wg, inflight,
                   extents, esize, runs, rhist>>
    /\ UNCHANGED othersR

\* The second loop is over: the call is at the final wg.Wait() of line 572.
DispatchLoopEnd ==
    /\ rpc = "dispatch"
    /\ ri > rangeLen
    /\ rpc' = "finalwait"
    /\ UNCHANGED <<task, ci, ri, rangeLen, recoverIndex, wg, inflight,
                   extents, esize, runs, rhist>>
    /\ UNCHANGED othersR

\* line 572: the final wg.Wait() returns and so does the call.
RepairReturn ==
    /\ rpc = "finalwait"
    /\ WaitDone
    /\ rpc' = "done"
    /\ runs' = runs + 1
    /\ UNCHANGED <<task, ci, ri, rangeLen, recoverIndex, wg, inflight,
                   extents, esize, rhist>>
    /\ UNCHANGED othersR

\* doStreamExtentFixRepair(wg, extentInfo) ends: it has streamed the extent
\* up to the size asked for, or failed part of the way, and calls wg.Done().
WorkerFinish(i) ==
    /\ i \in inflight
    /\ LET info == task.ExtentsToBeRepaired[i] IN
        \E s \in {esize[info.FileID], Max(esize[info.FileID], info.Size)} :
            esize' = [esize EXCEPT ![info.FileID] = s]
    /\ inflight' = inflight \ {i}
    /\ wg' = wg - 1
    /\ UNCHANGED <<rpc, task, ci, ri, rangeLen, recoverIndex, extents, runs,
                   rhist>>
    /\ UNCHANGED othersR

NextRepair ==
    \/ RepairCall
    \/ CreateSkipTiny
    \/ CreateAppendExisting
    \/ CreateOk
    \/ CreateFail
    \/ CreateLoopEnd
    \/ DispatchSkipMissing
    \/ Dispatch
    \/ BarrierWait
    \/ DispatchLoopEnd
    \/ RepairReturn
    \/ \E i \in inflight : WorkerFinish(i)

SpecRepair == InitRepair /\ [][NextRepair]_vars

----------------------------------------------------------------------------
(* Properties of the repair cycle *)

\* C1: at every instant of DoExtentStoreRepair the number of stream-repair
\* workers dispatched and not yet finished is at most
\* NumOfFilesToRecoverInParallel.
C1_BoundedFanOut == Cardinality(inflight) <= NumOfFilesToRecoverInParallel

\* The bound is reached: a full batch is in flight and the loop waits.
C1_Witness ==
    /\ rpc = "wait"
    /\ Cardinality(inflight) = NumOfFilesToRecoverInParallel

\* C3: when DoExtentStoreRepair returns, every worker it dispatched has
\* finished: no worker is in flight and the WaitGroup counter is zero.
C3_Fence == rpc = "done" => (inflight = {} /\ wg = 0)

\* A call that dispatched workers, the last batch of them not full (so that
\* only the final Wait covers it), has returned.
C3_Witness ==
    /\ rpc = "done"
    /\ recoverIndex > 0
    /\ recoverIndex % NumOfFilesToRecoverInParallel # 0

\* The second (or a later) call on the same task has returned.
SecondRunDone == rpc = "done" /\ runs >= 2

\* C10 as stated: a second run on the same task creates no extent and
\* leaves the store with the extents the first run left.
C10_Original ==
    SecondRunDone => (extents = rhist.prevExtents /\ rhist.created = {})

\* C10 as amended: the second run removes no extent and shrinks none, and
\* it creates exactly extents whose create failed in the first run (the
\* swallowed error is retried); when no create failed in the first run the
\* second run creates nothing and the set of extents is the same.
C10_Amended ==
    SecondRunDone =>
        /\ rhist.created \subseteq rhist.prevFailed
        /\ rhist.created \cap rhist.prevExtents = {}
        /\ extents = rhist.prevExtents \cup rhist.created
        /\ rhist.prevFailed = {} => extents = rhist.prevExtents
        /\ \A e \in ExtentIDs : esize[e] >= rhist.prevSize[e]

\* The second run has created an extent whose create failed in the first.
C10_Witness ==
    /\ SecondRunDone
    /\ rhist.created # {}
    /\ rhist.prevFailed # {}

\* The entries of ExtentsToBeCreated, among the first n, that the claim says
\* are appended: those that are not tiny and whose extent existed already or
\* was created successfully.
RECURSIVE ExpectedAppends(_)
ExpectedAppends(n) ==
    IF n = 0 THEN <<>>
    ELSE LET info == task.ExtentsToBeCreated[n]
             e == rhist.log[n]
             keep == /\ ~IsTinyExtent(info.FileID)
                     /\ (e.had \/ (e.called /\ e.ok))
         IN  IF keep THEN Append(ExpectedAppends(n - 1), info)
                     ELSE ExpectedAppends(n - 1)

\* The first loop is running or has run in the current call.
InOrAfterCreatePhase == rpc \in {"create", "dispatch", "wait", "finalwait", "done"}

\* C11: in the creation phase no tiny extent is created or appended; an
\* entry whose extent exists is appended without a create; a missing
\* non-tiny extent is created and appended only if the create succeeded; a
\* failed create appends nothing and the loop goes on to the end of the
\* list. The repaired list is the original one followed by exactly the
\* appended entries in their original order.
C11_CreatePhase ==
    InOrAfterCreatePhase =>
        /\ Len(rhist.log) = ci - 1
        /\ rpc # "create" => Len(rhist.log) = Len(task.ExtentsToBeCreated)
        /\ rhist.created \cap TinyExtentIDs = {}
        /\ \A n \in 1..Len(rhist.log) :
              LET id == task.ExtentsToBeCreated[n].FileID
                  e == rhist.log[n]
              IN  /\ IsTinyExtent(id) => ~e.called
                  /\ (~IsTinyExtent(id) /\ e.had) => ~e.called
                  /\ (~IsTinyExtent(id) /\ ~e.had) => e.called
        /\ task.ExtentsToBeRepaired =
              rhist.origRepaired \o ExpectedAppends(Len(rhist.log))

\* The first loop of a call on a task with a non-empty repair list has
\* ended after a create that failed and, later, a create that succeeded.
C11_Witness ==
    /\ rpc = "dispatch"
    /\ runs = 0
    /\ \E a, b \in 1..Len(rhist.log) :
          /\ a < b
          /\ rhist.log[a].called /\ ~rhist.log[a].ok
          /\ rhist.log[b].called /\ rhist.log[b].ok
    /\ Len(rhist.origRepaired) > 0

\* C19: no two stream-repair workers in flight at the same time target the
\* same extent id.
C19_NoTwoWorkersSameExtent ==
    \A i, j \in inflight :
        i # j => task.ExtentsToBeRepaired[i].FileID #
                     task.ExtentsToBeRepaired[j].FileID

----------------------------------------------------------------------------
(* statusUpdate, LaunchRepair, updateReplicas *)

\* The package constants below are defined outside these sources; the model
\* is checked for small values of them.
IntervalToUpdateReplica == 3
IntervalToUpdatePartitionSize == 2
MaxActiveExtents == 2
MinTinyExtentsToRepair == 1
\* dp.partitionSize, a positive capacity.
PartitionSize == 2

\* What a scan of the partition directory can add up to.
UsageValues == {PartitionSize - 1, PartitionSize, PartitionSize + 1}
\* What extentStore.GetExtentCount() can return.
ExtentCounts == {MaxActiveExtents - 1, MaxActiveExtents}

\* proto.TinyExtentType, proto.NormalExtentType
ExtentTypes == {"TinyExtentType", "NormalExtentType"}

\* The process-wide LocalIP and the host strings the master can return,
\* as sequences of characters.
LocalIP == <<"a">>
SelfHost == <<"a", ":", "9">>
OtherHost == <<"b", ":", "9">>
PaddedSelfHost == <<" ", "a", ":", "9">>
NoPortSelfHost == <<"a">>
TwoColonHost == <<"a", ":", "9", ":", "9">>
HostLists ==
    {<<>>, <<SelfHost, OtherHost>>, <<OtherHost, SelfHost>>,
     <<PaddedSelfHost>>, <<NoPortSelfHost>>, <<TwoColonHost, SelfHost>>}

\* What MasterHelper.Request and json.Unmarshal can come back with.
MasterResponses ==
    {[fail |-> "request", hosts |-> <<>>], [fail |-> "unmarshal", hosts |-> <<>>]}
        \cup {[fail |-> "none", hosts |-> h] : h \in HostLists}
NoResponse == [fail |-> "request", hosts |-> <<>>]

\* What reading the partition directory gives: an error, or the sizes' sum.
DirError == [ok |-> FALSE, sum |-> 0]
DirReads == {DirError} \cup {[ok |-> TRUE, sum |-> u] : u \in UsageValues}

\* A Min that takes the larger status.
MinStatusSwapped(a, b) == IF a >= b THEN a ELSE b

\* line 371: math.Min of the two statuses.
MinStatus(a, b) == IF a <= b THEN a ELSE b

\* lines 359-368: the status the partition's own usage allows.
LocalStatus(u, count) ==
    LET s0 == ReadWrite
        s1 == IF u >= PartitionSize THEN ReadOnly ELSE s0
        s2 == IF count >= MaxActiveExtents THEN ReadOnly ELSE s1
    IN s2

\* lines 407-424, computeUsage: the usage and its timestamp afterwards, given
\* what reading the directory gives (an error, or the sum of the sizes).
ComputeUsage(dir) ==
    IF now - intervalToUpdatePartitionSize < IntervalToUpdatePartitionSize
    THEN [used |-> used, ts |-> intervalToUpdatePartitionSize]
    ELSE IF ~dir.ok
    THEN [used |-> used, ts |-> intervalToUpdatePartitionSize]
    ELSE [used |-> dir.sum, ts |-> now]

\* lines 358-372, statusUpdate, given what the directory, the extent store
\* and the disk can answer.
statusUpdateOn(dirs, counts, disks) ==
    \E dir \in dirs, count \in counts, disk \in disks :
        LET u == ComputeUsage(dir) IN
        /\ used' = u.used
        /\ intervalToUpdatePartitionSize' = u.ts
        /\ partitionStatus' = MinStatus(LocalStatus(u.used, count), disk)
        /\ mhist' = [MaintEmptyHist EXCEPT !.op = "statusUpdate",
                                          !.disk = disk, !.count = count]
        /\ UNCHANGED <<now, intervalToUpdateReplicas, isLeader, replicas,
                       brokenTinyExtentCnt>>

statusUpdate == statusUpdateOn(DirReads, ExtentCounts, Statuses)

\* lines 513-518: whether hosts[0] names this node.
IsLocalHost(host) ==
    LET leaderAddr == Split(host, ":") IN
    Len(leaderAddr) = 2 /\ TrimSpace(leaderAddr[1]) = LocalIP

\* lines 492-520, fetchReplicasFromMaster.
FetchReplicasFromMaster(resp) ==
    IF resp.fail # "none"
    THEN [isLeader |-> FALSE, replicas |-> <<>>, err |-> TRUE]
    ELSE [isLeader |-> Len(resp.hosts) >= 1 /\ IsLocalHost(resp.hosts[1]),
          replicas |-> resp.hosts, err |-> FALSE]

\* A rate limit that lets the call through at exactly the interval.
RateLimitedStrict(t) == t - intervalToUpdateReplicas < IntervalToUpdateReplica

\* line 454: the call comes too soon after the last successful refresh.
RateLimited(t) == t - intervalToUpdateReplicas <= IntervalToUpdateReplica

\* A failed refresh that keeps what the fetch returned.
AfterFailedFetchStored(f) ==
    [isLeader |-> f.isLeader, replicas |-> f.replicas,
     ts |-> intervalToUpdateReplicas]

\* lines 457-461: the fields when the fetch has failed.
AfterFailedFetch(f) ==
    [isLeader |-> FALSE, replicas |-> replicas, ts |-> intervalToUpdateReplicas]

\* lines 453-472, updateReplicas: the fields afterwards and what the call
\* did, given what the master answers if it is asked.
UpdateReplicas(resp) ==
    IF RateLimited(now)
    THEN [isLeader |-> isLeader, replicas |-> replicas,
          ts |-> intervalToUpdateReplicas,
          skipped |-> TRUE, queried |-> FALSE, err |-> FALSE]
    ELSE LET f == FetchReplicasFromMaster(resp) IN
         IF f.err
         THEN AfterFailedFetch(f) @@
              [skipped |-> FALSE, queried |-> TRUE, err |-> TRUE]
         ELSE [isLeader |-> f.isLeader, replicas |-> f.replicas, ts |-> now,
               skipped |-> FALSE, queried |-> TRUE, err |-> FALSE]

\* updateReplicas called on its own.
CallUpdateReplicas ==
    \E resp \in (IF RateLimited(now) THEN {NoResponse} ELSE MasterResponses) :
        LET r == UpdateReplicas(resp) IN
        /\ isLeader' = r.isLeader
        /\ replicas' = r.replicas
        /\ intervalToUpdateReplicas' = r.ts
        /\ mhist' = [MaintEmptyHist EXCEPT !.op = "updateReplicas",
                        !.skipped = r.skipped, !.queried = r.queried,
                        !.err = r.err,
                        !.hosts = IF r.queried THEN resp.hosts ELSE <<>>]
        /\ UNCHANGED <<now, partitionStatus, used,
                       intervalToUpdatePartitionSize, brokenTinyExtentCnt>>
        /\ UNCHANGED othersM

\* A LaunchRepair without the leader test of line 444.
LaunchRepairPathNoLeaderTest(status, r) ==
    IF status = Unavailable THEN "unavailable"
    ELSE IF r.err THEN "error"
    ELSE "repair"

\* lines 437-446: where LaunchRepair returns, given the status and what
\* updateReplicas did.
LaunchRepairPath(status, r) ==
    IF status = Unavailable THEN "unavailable"
    ELSE IF r.err THEN "error"
    ELSE IF ~r.isLeader THEN "notleader"
    ELSE "repair"

\* lines 436-451, LaunchRepair(extentType), given what the master can answer.
LaunchRepairOn(extentType, responses) ==
    \E resp \in (IF partitionStatus = Unavailable \/ RateLimited(now)
                 THEN {NoResponse} ELSE responses),
       moved \in (IF brokenTinyExtentCnt = 0 THEN 0..MinTinyExtentsToRepair
                  ELSE {0}) :
        LET r == UpdateReplicas(resp)
            path == LaunchRepairPath(partitionStatus, r)
            refill == path = "repair" /\ brokenTinyExtentCnt = 0
        IN
        /\ IF partitionStatus = Unavailable
           THEN UNCHANGED <<isLeader, replicas, intervalToUpdateReplicas>>
           ELSE /\ isLeader' = r.isLeader
                /\ replicas' = r.replicas
                /\ intervalToUpdateReplicas' = r.ts
        \* lines 447-449: an empty queue is refilled with up to
        \* MinTinyExtentsToRepair tiny extents
        /\ brokenTinyExtentCnt' = IF refill THEN moved ELSE brokenTinyExtentCnt
        /\ mhist' = [MaintEmptyHist EXCEPT !.op = "LaunchRepair",
                        !.skipped = partitionStatus # Unavailable /\ r.skipped,
                        !.queried = partitionStatus # Unavailable /\ r.queried,
                        !.err = partitionStatus # Unavailable /\ r.err,
                        !.hosts = IF partitionStatus # Unavailable /\ r.queried
                                  THEN resp.hosts ELSE <<>>,
                        !.touched = path = "repair",
                        !.started = path = "repair",
                        !.kind = IF path = "repair" THEN extentType ELSE "none"]
        /\ UNCHANGED <<now, partitionStatus, used,
                       intervalToUpdatePartitionSize>>

LaunchRepair(extentType) == LaunchRepairOn(extentType, MasterResponses)

\* statusUpdate and LaunchRepair called on their own.
CallStatusUpdate == statusUpdate /\ UNCHANGED othersM
CallLaunchRepair(extentType) == LaunchRepair(extentType) /\ UNCHANGED othersM

\* The repair takes a broken tiny extent off the store's queue.
TinyExtentRepaired ==
    /\ brokenTinyExtentCnt > 0
    /\ brokenTinyExtentCnt' = brokenTinyExtentCnt - 1
    /\ mhist' = [MaintEmptyHist EXCEPT !.op = "tinyRepaired"]
    /\ UNCHANGED <<now, partitionStatus, used, intervalToUpdatePartitionSize,
                   intervalToUpdateReplicas, isLeader, replicas>>
    /\ UNCHANGED othersM

\* A second passes.
Tick ==
    /\ now < StartTime + MaxElapsed
    /\ now' = now + 1
    /\ mhist' = [MaintEmptyHist EXCEPT !.op = "tick"]
    /\ UNCHANGED <<partitionStatus, used, intervalToUpdatePartitionSize,
                   intervalToUpdateReplicas, isLeader, replicas,
                   brokenTinyExtentCnt>>
    /\ UNCHANGED othersM

InitMaint ==
    /\ SnapParked
    /\ RepairParked
    /\ MetaParked
    /\ LifeParked
    /\ MaintParked

NextMaint ==
    \/ CallStatusUpdate
    \/ CallUpdateReplicas
    \/ \E t \in ExtentTypes : CallLaunchRepair(t)
    \/ TinyExtentRepaired
    \/ Tick

SpecMaint == InitMaint /\ [][NextMaint]_vars

----------------------------------------------------------------------------
(* Properties of the maintenance operations *)

\* The order of the statuses: Unavailable < ReadOnly < ReadWrite.
Rank(st) == CASE st = Unavailable -> 0 [] st = ReadOnly -> 1 [] st = ReadWrite -> 2

\* C4: after every statusUpdate the partition status is the lesser of the
\* local status and the disk status, where the local status is ReadOnly iff
\* used >= partitionSize or the extent count >= MaxActiveExtents and
\* ReadWrite otherwise; so it never exceeds the disk status.
C4_StatusIsMin ==
    mhist.op = "statusUpdate" =>
        LET full == used >= PartitionSize \/ mhist.count >= MaxActiveExtents
        IN /\ partitionStatus \in Statuses
           /\ Rank(partitionStatus) <= Rank(mhist.disk)
           /\ partitionStatus =
                IF mhist.disk = Unavailable THEN Unavailable
                ELSE IF mhist.disk = ReadOnly \/ full THEN ReadOnly
                ELSE ReadWrite

\* A statusUpdate on a healthy disk with space left has made the partition
\* read-only because of its extent count.
C4_Witness ==
    /\ mhist.op = "statusUpdate"
    /\ mhist.disk = ReadWrite
    /\ used < PartitionSize
    /\ partitionStatus = ReadOnly

\* What LaunchRepair may change of the partition and of the store.
launchFrame == <<now, partitionStatus, used, intervalToUpdatePartitionSize,
                 intervalToUpdateReplicas, isLeader, replicas,
                 brokenTinyExtentCnt>>

\* C5: LaunchRepair touches the extent store and starts a repair only when
\* the status is not Unavailable, the replica refresh returned no error and
\* isLeader is true; with the status Unavailable it changes nothing and
\* does not even ask the master; and when the hosts it has just fetched do
\* not begin with the local address it starts no repair.
C5_RepairOnlyAsLeader ==
    /\ [](mhist.op = "LaunchRepair" /\ (mhist.touched \/ mhist.started)
            => partitionStatus # Unavailable /\ ~mhist.err /\ isLeader)
    /\ [](mhist.op = "LaunchRepair" /\ mhist.queried
            /\ (mhist.hosts = <<>> \/ ~IsLocalHost(mhist.hosts[1]))
            => ~mhist.started /\ ~mhist.touched)
    /\ [][mhist'.op = "LaunchRepair" /\ partitionStatus = Unavailable
            => /\ UNCHANGED launchFrame
               /\ ~mhist'.queried /\ ~mhist'.touched /\ ~mhist'.started]_vars

\* A LaunchRepair that has just fetched the hosts, found itself first and
\* started a repair.
C5_Witness ==
    /\ mhist.op = "LaunchRepair"
    /\ mhist.queried
    /\ mhist.started
    /\ mhist.touched

\* The call comes within IntervalToUpdateReplica seconds of a successful
\* refresh.
InWindow ==
    /\ intervalToUpdateReplicas # 0
    /\ now - intervalToUpdateReplicas <= IntervalToUpdateReplica

\* C6: updateReplicas within IntervalToUpdateReplica seconds of the last
\* successful refresh asks the master nothing, returns no error and leaves
\* replicas, isLeader and the timestamp as they were; and a failed refresh
\* does not move the timestamp.
C6_RateLimitNoOp ==
    /\ [][(mhist'.op = "updateReplicas"
            \/ (mhist'.op = "LaunchRepair" /\ partitionStatus # Unavailable))
          /\ InWindow
            => /\ UNCHANGED <<replicas, isLeader, intervalToUpdateReplicas>>
               /\ mhist'.skipped /\ ~mhist'.queried /\ ~mhist'.err]_vars
    /\ [][mhist'.op \in {"updateReplicas", "LaunchRepair"} /\ mhist'.err
            => intervalToUpdateReplicas' = intervalToUpdateReplicas]_vars

\* updateReplicas has returned at once, exactly IntervalToUpdateReplica
\* seconds after a successful refresh.
C6_Witness ==
    /\ mhist.op = "updateReplicas"
    /\ mhist.skipped
    /\ intervalToUpdateReplicas # 0
    /\ now - intervalToUpdateReplicas = IntervalToUpdateReplica

\* C7 as stated: a failed query leaves replicas, isLeader and the timestamp
\* with the values they had before the call.
C7_Original ==
    [][mhist'.op = "updateReplicas" /\ mhist'.err
        => UNCHANGED <<replicas, isLeader, intervalToUpdateReplicas>>]_vars

\* C7 as amended: when the query fails the error is returned, replicas and
\* the timestamp keep their values, and isLeader is false afterwards (it is
\* cleared before the query and not restored).
C7_Amended ==
    [][mhist'.op = "updateReplicas" /\ mhist'.err
        => /\ mhist'.queried
           /\ UNCHANGED <<replicas, intervalToUpdateReplicas>>
           /\ isLeader' = FALSE]_vars

\* A query has failed on a partition that had replicas from an earlier
\* refresh.
C7_Witness ==
    /\ mhist.op = "updateReplicas"
    /\ mhist.err
    /\ replicas # <<>>
    /\ intervalToUpdateReplicas # 0

----------------------------------------------------------------------------
(* PersistMetadata *)

\* The peers a configuration can name (proto.Peer: an id and an address).
MaxPeers == 3
PeerIDs == 1..MaxPeers
Peer(i) == [ID |-> i, Addr |-> <<"h", i>>]

\* The configuration of the partition: dpCfg.VolName, PartitionID,
\* PartitionSize.
VolName == <<"v">>
PartitionID == 7

\* The configured peers in any order: the sequences without repetition.
PeerLists ==
    {p \in SeqsUpTo(MaxPeers, {Peer(i) : i \in PeerIDs}) :
        \A i, j \in 1..Len(p) : i # j => p[i].ID # p[j].ID}

\* sortedPeers.Less, line 63, the wrong way round.
LessDescending(a, b) == a.ID > b.ID

\* sortedPeers.Less, line 63.
Less(a, b) == a.ID < b.ID

\* sort.Sort on sortedPeers (an insertion sort for slices this short):
\* Insert puts x into the sorted sequence sp.
RECURSIVE Insert(_, _)
Insert(sp, x) ==
    IF sp = <<>> THEN <<x>>
    ELSE IF Less(x, Head(sp)) THEN <<x>> \o sp
    ELSE <<Head(sp)>> \o Insert(Tail(sp), x)

RECURSIVE SortPeers(_)
SortPeers(sp) ==
    IF sp = <<>> THEN <<>>
    ELSE Insert(SortPeers(SubSeq(sp, 1, Len(sp) - 1)), sp[Len(sp)])

\* time.Now().Format(TimeLayout): the time as text.
FormatTime(t) == <<"t", t>>

\* A piece of the JSON text: what it is and the value it spells.
Tok(tag, val) == [tag |-> tag, val |-> val]

\* json.Marshal of a DataPartitionMetadata: the text of the file, one
\* piece per field and per peer, between the braces.
Marshal(md) ==
    <<Tok("{", 0), Tok("VolumeID", md.VolumeID),
      Tok("PartitionID", md.PartitionID),
      Tok("PartitionSize", md.PartitionSize),
      Tok("CreateTime", md.CreateTime)>>
        \o [i \in 1..Len(md.Peers) |-> Tok("Peer", md.Peers[i])]
        \o <<Tok("}", 0)>>

\* File.Write at offset 0 of a file opened without O_TRUNC: the bytes
\* replace the beginning of the file and what lies beyond them stays.
WriteAtStart(old, bytes) ==
    IF Len(old) > Len(bytes)
    THEN bytes \o SubSeq(old, Len(bytes) + 1, Len(old))
    ELSE bytes

\* PersistMetadata is called.
PersistCall ==
    /\ ppc = "idle"
    /\ ppc' = "open"
    /\ phist' = [MetaEmptyHist EXCEPT !.firstTime = phist.firstTime,
                                      !.crashes = phist.crashes]
    /\ UNCHANGED <<files, configPeers>>
    /\ UNCHANGED othersP

\* line 300: os.OpenFile(.meta, O_CREATE|O_RDWR) creates the file if there
\* is none and opens it.
PersistOpen ==
    /\ ppc = "open"
    /\ files' = [files EXCEPT ![TempMetadataFileName] =
                    [exists |-> TRUE, data |-> @.data]]
    /\ ppc' = "write"
    /\ UNCHANGED <<configPeers, phist>>
    /\ UNCHANGED othersP

\* line 300: os.OpenFile fails; the call returns the error.
PersistOpenFail ==
    /\ ppc = "open"
    /\ ppc' = "idle"
    /\ phist' = [phist EXCEPT !.result = "err"]
    /\ UNCHANGED <<files, configPeers>>
    /\ UNCHANGED othersP

\* lines 309-318: the configured peers are sorted in place and the
\* descriptor is built from the configuration and the clock.
Descriptor(peers) ==
    [VolumeID |-> VolName, PartitionID |-> PartitionID,
     PartitionSize |-> PartitionSize, Peers |-> peers,
     CreateTime |-> FormatTime(now)]

\* lines 309-322: sort, marshal and write the descriptor to .meta.
PersistWrite ==
    /\ ppc = "write"
    /\ configPeers' = SortPeers(configPeers)
    /\ files' = [files EXCEPT ![TempMetadataFileName] =
                    [exists |-> TRUE,
                     data |-> WriteAtStart(@.data,
                                Marshal(Descriptor(configPeers')))]]
    /\ phist' = [phist EXCEPT !.time = now, !.peers = configPeers]
    /\ ppc' = "rename"
    /\ UNCHANGED othersP

\* line 322: the write fails; the call goes to its deferred cleanup.
PersistWriteFail ==
    /\ ppc = "write"
    /\ configPeers' = SortPeers(configPeers)
    /\ phist' = [phist EXCEPT !.result = "err", !.time = now,
                              !.peers = configPeers]
    /\ ppc' = "cleanup"
    /\ UNCHANGED files
    /\ UNCHANGED othersP

\* line 326: os.Rename(.meta, META) puts the temp file in META's place.
PersistRename ==
    /\ ppc = "rename"
    /\ files' = [files EXCEPT
                    ![DataPartitionMetadataFileName] = files[TempMetadataFileName],
                    ![TempMetadataFileName] = NoFile]
    /\ phist' = [phist EXCEPT
                    !.result = "ok",
                    !.firstTime = IF @ = 0 THEN phist.time ELSE @]
    /\ ppc' = "cleanup"
    /\ UNCHANGED configPeers
    /\ UNCHANGED othersP

\* line 326: os.Rename fails.
PersistRenameFail ==
    /\ ppc = "rename"
    /\ phist' = [phist EXCEPT !.result = "err"]
    /\ ppc' = "cleanup"
    /\ UNCHANGED <<files, configPeers>>
    /\ UNCHANGED othersP

\* lines 303-307, the deferred function: Sync, Close and os.Remove(.meta),
\* whose error (no such file, after the rename) is dropped; the call returns.
PersistCleanup ==
    /\ ppc = "cleanup"
    /\ files' = [files EXCEPT ![TempMetadataFileName] = NoFile]
    /\ ppc' = "idle"
    /\ UNCHANGED <<configPeers, phist>>
    /\ UNCHANGED othersP

\* A second passes between two calls.
MetaTick ==
    /\ ppc = "idle"
    /\ now < StartTime + MaxElapsed
    /\ now' = now + 1
    /\ UNCHANGED <<maintRest, metaVars, repairVars, lifeVars, snapVars>>

InitMeta ==
    /\ SnapParked
    /\ RepairParked
    /\ MaintParked
    /\ LifeParked
    /\ files = [f \in FileNames |-> NoFile]
    /\ configPeers \in PeerLists
    /\ ppc = "idle"
    /\ phist = MetaEmptyHist

NextMeta ==
    \/ PersistCall
    \/ PersistOpen
    \/ PersistOpenFail
    \/ PersistWrite
    \/ PersistWriteFail
    \/ PersistRename
    \/ PersistRenameFail
    \/ PersistCleanup
    \/ MetaTick

SpecMeta == InitMeta /\ [][NextMeta]_vars

\* How many times the process dies.
MaxCrashes == 1

\* The process dies at any step of PersistMetadata, or between two calls,
\* and is started again: the files stay as they are on the disk, the
\* deferred cleanup of an interrupted call does not run.
Crash ==
    /\ phist.crashes < MaxCrashes
    /\ ppc' = "idle"
    /\ phist' = [phist EXCEPT !.result = "crashed", !.crashes = @ + 1]
    /\ UNCHANGED <<files, configPeers>>
    /\ UNCHANGED othersP

\* The members of the partition change between two calls (a raft
\* configuration change updates dp.config.Peers and persists the metadata).
ConfigChange ==
    /\ ppc = "idle"
    /\ \E p \in PeerLists :
        /\ \/ \E i \in 1..Len(configPeers) :
                p = SubSeq(configPeers, 1, i - 1) \o
                    SubSeq(configPeers, i + 1, Len(configPeers))
           \/ \E x \in {Peer(i) : i \in PeerIDs} : p = Append(configPeers, x)
        /\ configPeers' = p
    /\ UNCHANGED <<files, ppc, phist>>
    /\ UNCHANGED othersP

NextCrash ==
    \/ PersistCall
    \/ PersistOpen
    \/ PersistOpenFail
    \/ PersistWrite
    \/ PersistWriteFail
    \/ PersistRename
    \/ PersistRenameFail
    \/ PersistCleanup
    \/ Crash
    \/ ConfigChange

SpecCrash == InitMeta /\ [][NextCrash]_vars

----------------------------------------------------------------------------
(* Properties of PersistMetadata *)

\* The one sequence of the given peers in ascending order of id.
Ascending(peerSet) ==
    CHOOSE sq \in [1..Cardinality(peerSet) -> peerSet] :
        \A i, j \in 1..Cardinality(peerSet) : i < j => sq[i].ID < sq[j].ID

\* PersistMetadata has returned without an error.
PersistReturnedOk == ppc = "idle" /\ phist.result = "ok"

CreateTimeOf(data) ==
    data[CHOOSE i \in 1..Len(data) : data[i].tag = "CreateTime"].val

\* C16: the create_time of the persisted descriptor is set by the first
\* persist and is the same after every later successful PersistMetadata.
C16_CreateTimeImmutable ==
    (PersistReturnedOk /\ phist.firstTime # 0) =>
        CreateTimeOf(files[DataPartitionMetadataFileName].data) =
            FormatTime(phist.firstTime)

\* The descriptors PersistMetadata can be asked to write: any time of the
\* clock, any set of peers, sorted.
Descriptors ==
    {[VolumeID |-> VolName, PartitionID |-> PartitionID,
      PartitionSize |-> PartitionSize, CreateTime |-> FormatTime(t),
      Peers |-> SortPeers(p)] :
        t \in StartTime..(StartTime + MaxElapsed), p \in PeerLists}

\* C18: whenever META exists its content is the complete serialization of
\* one descriptor, never a truncated one and never a mix of two, also after
\* crashes at any step and with a .meta left over from a crashed call.
C18_CrashAtomic ==
    files[DataPartitionMetadataFileName].exists =>
        \E md \in Descriptors :
            files[DataPartitionMetadataFileName].data = Marshal(md)

----------------------------------------------------------------------------
(* CreateDataPartition, LoadDataPartition, Stop and the scheduler *)

\* How many times Stop is called on the partition.
MaxStops == 2
\* math.MaxUint32 is 2^32 - 1; the model keeps the shape with fewer bits.
IndexBits == 2
MaxUint32 == 2^IndexBits - 1

\* The listings extentStore.SnapShot() can return.
Listings == {<<>>, <<1>>}

\* The descriptor a parse of "{}" gives: every field at its zero value.
ZeroMetadata ==
    [VolumeID |-> <<>>, PartitionID |-> 0, PartitionSize |-> 0,
     CreateTime |-> <<>>, Peers |-> <<>>]

\* The text is a whole descriptor object.
IsDescriptorText(b) ==
    /\ Len(b) >= 6
    /\ b[1].tag = "{"
    /\ b[2].tag = "VolumeID"
    /\ b[3].tag = "PartitionID"
    /\ b[4].tag = "PartitionSize"
    /\ b[5].tag = "CreateTime"
    /\ \A i \in 6..(Len(b) - 1) : b[i].tag = "Peer"
    /\ b[Len(b)].tag = "}"

\* json.Unmarshal(metaFileData, meta), line 136.
Unmarshal(b) ==
    IF b = <<Tok("{", 0), Tok("}", 0)>>
    THEN [err |-> FALSE, md |-> ZeroMetadata]
    ELSE IF IsDescriptorText(b)
    THEN [err |-> FALSE,
          md |-> [VolumeID |-> b[2].val, PartitionID |-> b[3].val,
                  PartitionSize |-> b[4].val, CreateTime |-> b[5].val,
                  Peers |-> [i \in 1..(Len(b) - 6) |-> b[5 + i].val]]]
    ELSE [err |-> TRUE, md |-> ZeroMetadata]

\* lines 71-78, DataPartitionMetadata.Validate: TRUE when it returns an error.
ValidateFails(md) ==
    \/ Len(TrimSpace(md.VolumeID)) = 0
    \/ md.PartitionID = 0
    \/ md.PartitionSize = 0

\* The META files a partition directory can hold when it is loaded.
GoodMetadata ==
    [VolumeID |-> VolName, PartitionID |-> PartitionID,
     PartitionSize |-> PartitionSize, CreateTime |-> FormatTime(StartTime),
     Peers |-> <<Peer(1), Peer(2)>>]
MetaInputs ==
    {NoFile,
     [exists |-> TRUE, data |-> <<Tok("x", 0)>>],
     [exists |-> TRUE, data |-> <<Tok("{", 0), Tok("}", 0)>>],
     [exists |-> TRUE, data |-> Marshal([GoodMetadata EXCEPT !.VolumeID = <<" ">>])],
     [exists |-> TRUE, data |-> Marshal([GoodMetadata EXCEPT !.PartitionID = 0])],
     [exists |-> TRUE, data |-> Marshal(GoodMetadata)]}

\* No goroutine has panicked: the process runs.
Running == ~panicked

\* lines 132-141 of LoadDataPartition: META is read, parsed and validated;
\* any failure is returned at once.
LoadRead ==
    /\ Running
    /\ lpc = "start"
    /\ LET meta == files[DataPartitionMetadataFileName]
           u == Unmarshal(meta.data)
           why == IF ~meta.exists THEN "read"
                  ELSE IF u.err THEN "unmarshal"
                  ELSE IF ValidateFails(u.md) THEN "validate"
                  ELSE "none"
       IN /\ lfail' = why
          /\ lres' = IF why = "none" THEN "none" ELSE "err"
          /\ lpc' = IF why = "none" THEN "loadNew" ELSE "returned"
          \* line 147: the configuration takes the peers of the descriptor
          /\ configPeers' = IF why = "none" THEN u.md.Peers ELSE configPeers
    /\ lhist' = [lhist EXCEPT !.op = "load"]
    /\ UNCHANGED <<files, ppc, phist>>
    /\ UNCHANGED <<attached, extentStore, raft, stopC, sched, index, tickerC,
                   metricTickerC, tickersStopped, snapshot, stopPc, stopCalls,
                   panicked>>
    /\ UNCHANGED <<snapVars, repairVars, maintVars>>

\* lines 168-197, newDataPartition: the fields are set, the extent store is
\* opened, and only then is the partition attached to the disk and the
\* scheduler goroutine started.
Constructed(storeOk) ==
    IF storeOk
    THEN [extentStore |-> "open", stopC |-> "open", attached |-> TRUE,
          sched |-> "select"]
    ELSE [extentStore |-> "none", stopC |-> "open", attached |-> FALSE,
          sched |-> "none"]

\* line 152: LoadDataPartition calls newDataPartition.
LoadNew ==
    /\ Running
    /\ lpc = "loadNew"
    /\ \E storeOk \in BOOLEAN :
        LET c == Constructed(storeOk) IN
        /\ extentStore' = c.extentStore
        /\ stopC' = c.stopC
        /\ attached' = c.attached
        /\ sched' = c.sched
        /\ lpc' = IF storeOk THEN "loadRaft" ELSE "returned"
        /\ lres' = IF storeOk THEN "none" ELSE "err"
        /\ lfail' = IF storeOk THEN "none" ELSE "store"
    /\ UNCHANGED <<raft, index, tickerC, metricTickerC, tickersStopped,
                   snapshot, stopPc, stopCalls, panicked, lhist>>
    /\ UNCHANGED <<snapVars, repairVars, maintVars, metaVars>>

\* lines 156-165: LoadApplyIndex (its error is logged and dropped), then
\* StartRaft, whose error is returned.
LoadStartRaft ==
    /\ Running
    /\ lpc = "loadRaft"
    /\ \E raftOk \in BOOLEAN :
        /\ raft' = IF raftOk THEN "started" ELSE "none"
        /\ lres' = IF raftOk THEN "ok" ELSE "err"
        /\ lfail' = IF raftOk THEN "none" ELSE "raft"
    /\ lpc' = "returned"
    /\ UNCHANGED <<attached, extentStore, stopC, sched, index, tickerC,
                   metricTickerC, tickersStopped, snapshot, stopPc, stopCalls,
                   panicked, lhist>>
    /\ UNCHANGED <<snapVars, repairVars, maintVars, metaVars>>

\* lines 113-121: CreateDataPartition calls newDataPartition and then
\* PersistMetadata.
CreateNew ==
    /\ Running
    /\ lpc = "start"
    /\ \E storeOk \in BOOLEAN :
        LET c == Constructed(storeOk) IN
        /\ extentStore' = c.extentStore
        /\ stopC' = c.stopC
        /\ attached' = c.attached
        /\ sched' = c.sched
        /\ lpc' = IF storeOk THEN "createPersist" ELSE "returned"
        /\ lres' = IF storeOk THEN "none" ELSE "err"
        /\ lfail' = IF storeOk THEN "none" ELSE "createStore"
        /\ ppc' = IF storeOk THEN "open" ELSE ppc
    /\ lhist' = [lhist EXCEPT !.op = "create"]
    /\ UNCHANGED <<files, configPeers, phist>>
    /\ UNCHANGED <<raft, index, tickerC, metricTickerC, tickersStopped,
                   snapshot, stopPc, stopCalls, panicked>>
    /\ UNCHANGED <<snapVars, repairVars, maintVars>>

\* lines 121-122: PersistMetadata has returned and so does
\* CreateDataPartition, with its error.
CreateReturn ==
    /\ Running
    /\ lpc = "createPersist"
    /\ ppc = "idle"
    /\ lres' = phist.result
    /\ lfail' = IF phist.result = "ok" THEN "none" ELSE "persist"
    /\ lpc' = "returned"
    /\ UNCHANGED <<attached, extentStore, raft, stopC, sched, index, tickerC,
                   metricTickerC, tickersStopped, snapshot, stopPc, stopCalls,
                   panicked, lhist>>
    /\ UNCHANGED <<snapVars, repairVars, maintVars, metaVars>>

\* line 254-256: Stop closes stopC; closing a closed channel panics.
StopCloseChan ==
    /\ Running
    /\ lpc = "returned"
    /\ lres = "ok"
    /\ stopPc = "idle"
    /\ stopCalls < MaxStops
    /\ IF stopC = "open"
       THEN /\ stopC' = "closed"
            /\ stopPc' = "closeStore"
            /\ UNCHANGED panicked
       ELSE /\ panicked' = TRUE
            /\ UNCHANGED <<stopC, stopPc>>
    /\ UNCHANGED <<lpc, lres, lfail, attached, extentStore, raft, sched, index,
                   tickerC, metricTickerC, tickersStopped, snapshot, stopCalls,
                   lhist>>
    /\ UNCHANGED <<snapVars, repairVars, maintVars, metaVars>>

\* line 258: Stop closes the extent store.
StopCloseStore ==
    /\ Running
    /\ stopPc = "closeStore"
    /\ extentStore' = "closed"
    /\ stopPc' = "stopRaft"
    /\ UNCHANGED <<lpc, lres, lfail, attached, raft, stopC, sched, index,
                   tickerC, metricTickerC, tickersStopped, snapshot, stopCalls,
                   panicked, lhist>>
    /\ UNCHANGED <<snapVars, repairVars, maintVars, metaVars>>

\* line 259: Stop stops raft and returns.
StopRaft ==
    /\ Running
    /\ stopPc = "stopRaft"
    /\ raft' = IF raft = "started" THEN "stopped" ELSE raft
    /\ stopPc' = "idle"
    /\ stopCalls' = stopCalls + 1
    /\ UNCHANGED <<lpc, lres, lfail, attached, extentStore, stopC, sched,
                   index, tickerC, metricTickerC, tickersStopped, snapshot,
                   panicked, lhist>>
    /\ UNCHANGED <<snapVars, repairVars, maintVars, metaVars>>

\* The scheduler goroutine is in its loop.
SchedAlive == sched \notin {"none", "exited"}

\* ticker fires: the firing waits in the channel unless one waits already.
TickerFires ==
    /\ Running
    /\ SchedAlive
    /\ ~tickersStopped
    /\ ~tickerC
    /\ tickerC' = TRUE
    /\ UNCHANGED <<lpc, lres, lfail, attached, extentStore, raft, stopC, sched,
                   index, metricTickerC, tickersStopped, snapshot, stopPc,
                   stopCalls, panicked, lhist>>
    /\ UNCHANGED <<snapVars, repairVars, maintVars, metaVars>>

\* metricTicker fires.
MetricTickerFires ==
    /\ Running
    /\ SchedAlive
    /\ ~tickersStopped
    /\ ~metricTickerC
    /\ metricTickerC' = TRUE
    /\ UNCHANGED <<lpc, lres, lfail, attached, extentStore, raft, stopC, sched,
                   index, tickerC, tickersStopped, snapshot, stopPc, stopCalls,
                   panicked, lhist>>
    /\ UNCHANGED <<snapVars, repairVars, maintVars, metaVars>>

\* lines 336-337: the select takes the firing of ticker; index++.
SchedMainTick ==
    /\ Running
    /\ sched = "select"
    /\ tickerC
    /\ tickerC' = FALSE
    /\ index' = index + 1
    /\ sched' = "statusUpdate"
    /\ lhist' = [lhist EXCEPT !.tickAfterStop = @ \/ stopCalls > 0]
    /\ UNCHANGED <<lpc, lres, lfail, attached, extentStore, raft, stopC,
                   metricTickerC, tickersStopped, snapshot, stopPc, stopCalls,
                   panicked>>
    /\ UNCHANGED <<snapVars, repairVars, maintVars, metaVars>>

\* lines 338-341: statusUpdate (which asks the store for its extent count),
\* then index wraps to 0 at math.MaxUint32.
SchedStatusUpdate ==
    /\ Running
    /\ sched = "statusUpdate"
    /\ statusUpdateOn({DirError}, {MaxActiveExtents - 1},
                      {ReadWrite, Unavailable})
    /\ index' = IF index >= MaxUint32 THEN 0 ELSE index
    /\ lhist' = [lhist EXCEPT !.lateStoreOp = @ \/ extentStore = "closed"]
    /\ sched' = "launchRepair"
    /\ UNCHANGED <<lpc, lres, lfail, attached, extentStore, raft, stopC,
                   tickerC, metricTickerC, tickersStopped, snapshot, stopPc,
                   stopCalls, panicked>>
    /\ UNCHANGED <<snapVars, repairVars, metaVars>>

\* What the master answers in the runs of the scheduler.
SchedResponses ==
    {NoResponse, [fail |-> "none", hosts |-> <<SelfHost, OtherHost>>],
     [fail |-> "none", hosts |-> <<OtherHost, SelfHost>>]}

\* The last two elements of a sequence.
LastTwo(s) == IF Len(s) <= 2 THEN s ELSE SubSeq(s, Len(s) - 1, Len(s))

\* A parity test the wrong way round.
KindOfTickOdd(i) == IF i % 2 = 1 THEN "TinyExtentType" ELSE "NormalExtentType"

\* lines 342-346: the kind of repair the tick launches.
KindOfTick(i) == IF i % 2 = 0 THEN "TinyExtentType" ELSE "NormalExtentType"

\* lines 342-346: LaunchRepair of the kind the parity of index gives.
SchedLaunchRepair ==
    /\ Running
    /\ sched = "launchRepair"
    /\ LaunchRepairOn(KindOfTick(index), SchedResponses)
    /\ lhist' = [lhist EXCEPT
                    !.kinds = LastTwo(Append(@, KindOfTick(index))),
                    !.lateStoreOp = @ \/ (extentStore = "closed"
                                            /\ mhist'.touched)]
    /\ sched' = "reloadSnapshot"
    /\ UNCHANGED <<lpc, lres, lfail, attached, extentStore, raft, stopC, index,
                   tickerC, metricTickerC, tickersStopped, snapshot, stopPc,
                   stopCalls, panicked>>
    /\ UNCHANGED <<snapVars, repairVars, metaVars>>

\* lines 234-242 and 347: ReloadSnapshot asks the store for its listing and
\* publishes it; an error leaves the snapshot as it is.
SchedReloadSnapshot ==
    /\ Running
    /\ sched = "reloadSnapshot"
    /\ \E ok \in BOOLEAN, listing \in Listings :
        snapshot' = IF ok THEN listing ELSE snapshot
    /\ lhist' = [lhist EXCEPT !.lateStoreOp = @ \/ extentStore = "closed"]
    /\ sched' = "select"
    /\ UNCHANGED <<lpc, lres, lfail, attached, extentStore, raft, stopC, index,
                   tickerC, metricTickerC, tickersStopped, stopPc, stopCalls,
                   panicked>>
    /\ UNCHANGED <<snapVars, repairVars, maintVars, metaVars>>

\* lines 352-353: the select takes the firing of metricTicker.
SchedMetricTick ==
    /\ Running
    /\ sched = "select"
    /\ metricTickerC
    /\ metricTickerC' = FALSE
    /\ UNCHANGED <<lpc, lres, lfail, attached, extentStore, raft, stopC, sched,
                   index, tickerC, tickersStopped, snapshot, stopPc, stopCalls,
                   panicked, lhist>>
    /\ UNCHANGED <<snapVars, repairVars, maintVars, metaVars>>

\* A receive that is ready on a channel nobody has made.
StopReadyOnNil == stopC = "nil"

\* line 348: nothing is ever sent on stopC, so the receive is ready when,
\* and only when, the channel is closed.
StopReady == stopC = "closed"

\* lines 348-351: the select takes the closed stopC; both tickers are
\* stopped and the goroutine returns.
SchedStop ==
    /\ Running
    /\ sched = "select"
    /\ StopReady
    /\ tickersStopped' = TRUE
    /\ sched' = "exited"
    /\ UNCHANGED <<lpc, lres, lfail, attached, extentStore, raft, stopC, index,
                   tickerC, metricTickerC, snapshot, stopPc, stopCalls,
                   panicked, lhist>>
    /\ UNCHANGED <<snapVars, repairVars, maintVars, metaVars>>

InitLife ==
    /\ SnapParked
    /\ RepairParked
    /\ MaintParked
    /\ LifeParked
    /\ \E m \in MetaInputs :
        files = [f \in FileNames |->
                    IF f = DataPartitionMetadataFileName THEN m ELSE NoFile]
    /\ configPeers \in {<<>>, <<Peer(2), Peer(1)>>}
    /\ ppc = "idle"
    /\ phist = MetaEmptyHist

NextLife ==
    \/ LoadRead
    \/ LoadNew
    \/ LoadStartRaft
    \/ CreateNew
    \/ CreateReturn
    \/ PersistOpen
    \/ PersistOpenFail
    \/ PersistWrite
    \/ PersistWriteFail
    \/ PersistRename
    \/ PersistRenameFail
    \/ PersistCleanup
    \/ StopCloseChan
    \/ StopCloseStore
    \/ StopRaft
    \/ TickerFires
    \/ MetricTickerFires
    \/ SchedMainTick
    \/ SchedStatusUpdate
    \/ SchedLaunchRepair
    \/ SchedReloadSnapshot
    \/ SchedMetricTick
    \/ SchedStop

SpecLife == InitLife /\ [][NextLife]_vars

\* The scheduling the code relies on: each step of a tick body ends, and a
\* select that is reached again and again with stopC ready takes it in the
\* end (the choice among ready cases is random).
SpecLifeFair ==
    /\ SpecLife
    /\ WF_vars(SchedStatusUpdate)
    /\ WF_vars(SchedLaunchRepair)
    /\ WF_vars(SchedReloadSnapshot)
    /\ SF_vars(SchedStop)

----------------------------------------------------------------------------
(* Properties of the lifecycle *)

\* C2: Stop is idempotent: however many times it is called, no call faults
\* and every call that has returned leaves the partition stopped (stopC
\* closed, the extent store closed).
C2_StopIdempotent ==
    /\ ~panicked
    /\ (stopCalls > 0 /\ stopPc = "idle")
          => (stopC = "closed" /\ extentStore = "closed")

\* LoadDataPartition has returned an error.
LoadFailed ==
    /\ lpc = "returned"
    /\ lres = "err"
    /\ lfail \in {"read", "unmarshal", "validate", "store", "raft"}

\* C9: whenever LoadDataPartition returns an error the partition is not
\* attached to the disk manager and no scheduler goroutine runs for it.
C9_FailedLoadNotAttached == LoadFailed => (~attached /\ sched = "none")

\* The scheduler has launched the repair of a main tick and has not begun the
\* next one: index is the value the launch saw.
AfterLaunch ==
    /\ Len(lhist.kinds) >= 1
    /\ sched \in {"reloadSnapshot", "select", "exited"}

\* C12 as stated: any two consecutive main ticks launch one tiny-extent
\* repair and one normal-extent repair, also across the wrap of index.
C12_Original ==
    Len(lhist.kinds) = 2 => lhist.kinds[1] # lhist.kinds[2]

\* C12 as amended: a main tick launches a tiny-extent repair when index is
\* even and a normal-extent repair when it is odd; two consecutive main
\* ticks launch different kinds except at the wrap, where the tick that
\* sets index to 0 launches a tiny-extent repair directly after another
\* tiny-extent repair; two normal-extent repairs never follow each other.
C12_Amended ==
    AfterLaunch =>
        LET n == Len(lhist.kinds) IN
        /\ lhist.kinds[n] = IF index % 2 = 0 THEN "TinyExtentType"
                                               ELSE "NormalExtentType"
        /\ (n = 2 /\ lhist.kinds[1] = lhist.kinds[2]) =>
              (index = 0 /\ lhist.kinds = <<"TinyExtentType", "TinyExtentType">>)
        /\ (n = 2 /\ index # 0) => lhist.kinds[1] # lhist.kinds[2]

\* The tick at the wrap has launched its repair.
C12_Witness ==
    /\ sched = "reloadSnapshot"
    /\ index = 0
    /\ lhist.kinds = <<"TinyExtentType", "TinyExtentType">>

\* C13: after Stop has returned no new main maintenance cycle begins.
C13_NoCycleAfterStop == ~lhist.tickAfterStop

\* C17: a partition made by CreateDataPartition is attached, and has its
\* scheduler running, only when its META file exists; a failed metadata
\* write leaves no attached partition.
C17_AttachAfterPersist ==
    lhist.op = "create" =>
        /\ (attached \/ sched # "none") => files[DataPartitionMetadataFileName].exists
        /\ (lpc = "returned" /\ lres = "err") => ~attached

\* C20: the scheduler never invokes an operation of the extent store after
\* Stop has closed the store.
C20_NoStoreOpAfterClose == ~lhist.lateStoreOp

\* The scheduler goroutine has stopped both tickers and returned.
SchedReturned == sched = "exited" /\ tickersStopped

\* After its return the scheduler takes no tick: its position, its index
\* and the record of what it did stay as they are.
NoTickAfterReturn ==
    [][sched = "exited" => (sched' = "exited" /\ index' = index /\
                            lhist' = lhist /\ snapshot' = snapshot /\
                            tickersStopped')]_vars

----------------------------------------------------------------------------
(* ReloadSnapshot and SnapShot *)

\* line 235: extentStore.SnapShot() returns a listing, in an array of its own.
ReloadStoreOk ==
    /\ wpc = "idle"
    /\ reloads < MaxReloads
    /\ reloads' = reloads + 1
    /\ \E n \in 1..MaxFiles : arrays' = [arrays EXCEPT ![reloads + 1] = n]
    /\ wfiles' = reloads + 1
    /\ wpc' = "lock"
    /\ shist' = [shist EXCEPT !.failed = FALSE]
    /\ UNCHANGED <<snapshotMutex, snapshotHdr, rdpc, rdfiles, reads>>
    /\ UNCHANGED othersS

\* lines 236-238: extentStore.SnapShot() returns an error; ReloadSnapshot
\* returns.
ReloadStoreErr ==
    /\ wpc = "idle"
    /\ reloads < MaxReloads
    /\ reloads' = reloads + 1
    /\ shist' = [shist EXCEPT !.failed = TRUE]
    /\ UNCHANGED <<wpc, wfiles, snapshotMutex, snapshotHdr, arrays, rdpc,
                   rdfiles, reads>>
    /\ UNCHANGED othersS

\* line 239, snapshotMutex.Lock(): granted when nobody holds the lock.
ReloadLock ==
    /\ wpc = "lock"
    /\ ~snapshotMutex.writer
    /\ snapshotMutex.readers = 0
    /\ snapshotMutex' = [snapshotMutex EXCEPT !.writer = TRUE]
    /\ wpc' = "storeArray"
    /\ UNCHANGED <<wfiles, snapshotHdr, arrays, reloads, rdpc, rdfiles, reads,
                   shist>>
    /\ UNCHANGED othersS

\* line 240, dp.snapshot = files: a slice is several words, stored one after
\* the other; first the array.
ReloadStoreArray ==
    /\ wpc = "storeArray"
    /\ snapshotHdr' = [snapshotHdr EXCEPT !.array = wfiles]
    /\ wpc' = "storeLen"
    /\ UNCHANGED <<wfiles, snapshotMutex, arrays, reloads, rdpc, rdfiles,
                   reads, shist>>
    /\ UNCHANGED othersS

\* line 240, the length.
ReloadStoreLen ==
    /\ wpc = "storeLen"
    /\ snapshotHdr' = [snapshotHdr EXCEPT !.len = arrays[wfiles]]
    /\ wpc' = "unlock"
    /\ UNCHANGED <<wfiles, snapshotMutex, arrays, reloads, rdpc, rdfiles,
                   reads, shist>>
    /\ UNCHANGED othersS

\* line 241, snapshotMutex.Unlock(); ReloadSnapshot returns.
ReloadUnlock ==
    /\ wpc = "unlock"
    /\ snapshotMutex' = [snapshotMutex EXCEPT !.writer = FALSE]
    /\ wpc' = "idle"
    /\ shist' = [shist EXCEPT !.published = wfiles]
    /\ UNCHANGED <<wfiles, snapshotHdr, arrays, reloads, rdpc, rdfiles, reads>>
    /\ UNCHANGED othersS

\* A read lock that is granted whatever the state of the lock.
CanRLockAlways == TRUE

\* line 246, snapshotMutex.RLock(): granted when no writer holds the lock.
CanRLock == ~snapshotMutex.writer

\* line 246: a reader calls SnapShot and takes the read lock.
SnapShotRLock ==
    /\ rdpc \in {"idle", "returned"}
    /\ reads < MaxReads
    /\ CanRLock
    /\ snapshotMutex' = [snapshotMutex EXCEPT !.readers = @ + 1]
    /\ rdpc' = "loadArray"
    /\ shist' = [shist EXCEPT !.atRLock = shist.published]
    /\ UNCHANGED <<wpc, wfiles, snapshotHdr, arrays, reloads, rdfiles, reads>>
    /\ UNCHANGED othersS

\* line 249, return dp.snapshot: the words of the slice are loaded one after
\* the other; first the array.
SnapShotLoadArray ==
    /\ rdpc = "loadArray"
    /\ rdfiles' = [rdfiles EXCEPT !.array = snapshotHdr.array]
    /\ rdpc' = "loadLen"
    /\ UNCHANGED <<wpc, wfiles, snapshotMutex, snapshotHdr, arrays, reloads,
                   reads, shist>>
    /\ UNCHANGED othersS

\* line 249, the length.
SnapShotLoadLen ==
    /\ rdpc = "loadLen"
    /\ rdfiles' = [rdfiles EXCEPT !.len = snapshotHdr.len]
    /\ rdpc' = "runlock"
    /\ UNCHANGED <<wpc, wfiles, snapshotMutex, snapshotHdr, arrays, reloads,
                   reads, shist>>
    /\ UNCHANGED othersS

\* line 247, the deferred RUnlock; SnapShot returns what it has read.
SnapShotRUnlock ==
    /\ rdpc = "runlock"
    /\ snapshotMutex' = [snapshotMutex EXCEPT !.readers = @ - 1]
    /\ rdpc' = "returned"
    /\ reads' = reads + 1
    /\ UNCHANGED <<wpc, wfiles, snapshotHdr, arrays, reloads, rdfiles, shist>>
    /\ UNCHANGED othersS

InitSnap ==
    /\ RepairParked
    /\ MaintParked
    /\ MetaParked
    /\ LifeParked
    /\ SnapParked

NextSnap ==
    \/ ReloadStoreOk
    \/ ReloadStoreErr
    \/ ReloadLock
    \/ ReloadStoreArray
    \/ ReloadStoreLen
    \/ ReloadUnlock
    \/ SnapShotRLock
    \/ SnapShotLoadArray
    \/ SnapShotLoadLen
    \/ SnapShotRUnlock

SpecSnap == InitSnap /\ [][NextSnap]_vars

\* The slice header of listing k, whole.
Whole(k) == Hdr(k, arrays[k])

\* C15: the published snapshot is the initial empty listing or, whole, the
\* listing of the most recent successful reload; a failed reload leaves it as
\* it was; and a reader of SnapShot gets the whole listing that was
\* published when it took the lock (the previous one or the new one of a
\* concurrent reload), never parts of two.
C15_SnapshotAtomic ==
    /\ wpc \in {"idle", "lock"} => snapshotHdr = Whole(shist.published)
    /\ ~snapshotMutex.writer => snapshotHdr = Whole(snapshotHdr.array)
    /\ rdpc = "returned" =>
          /\ rdfiles = Whole(rdfiles.array)
          /\ rdfiles.array = shist.atRLock

\* A reader has returned the listing of an earlier reload while a later
\* reload, with a listing of another length, holds the write lock.
C15_Witness ==
    /\ rdpc = "returned"
    /\ rdfiles.array > 0
    /\ wpc \in {"storeArray", "storeLen", "unlock"}
    /\ wfiles # rdfiles.array
    /\ arrays[wfiles] # rdfiles.len

====
